---- MODULE Spec2Model ----
(***************************************************************************)
(* Model of the SSE client of src/src/index.ts (class SSEClient): the      *)
(* connection controller (connect, close, the onopen / onmessage / onerror *)
(* callbacks, _updateStatus, _handleReconnect) and the sequential event    *)
(* processor (the async generator _createEventHandler).                    *)
(*                                                                         *)
(* The EventSource transport is the environment.  Each transport the       *)
(* client creates has a ready state: "connecting", "open", "closed" (the   *)
(* client called close() on it) or "errored" (it raised error and the      *)
(* client did not close it: it was not the held transport, or the error    *)
(* handler threw before close() was reached).  A transport                 *)
(* raises open at most once, messages only while open and error at most    *)
(* once; a closed transport raises nothing.  A transport that connect()    *)
(* replaced keeps the callbacks connect() installed on it and goes on      *)
(* raising notifications.                                                  *)
(***************************************************************************)
EXTENDS FiniteSets, Integers, Sequences, TLC

\* ---- bounds of the model ----
MaxTransports == 4      \* EventSource objects created in one behaviour of Spec
MaxProcTransports == 2  \* EventSource objects created in one behaviour of SpecProc
MaxApiTransports == 1   \* EventSource objects created in one behaviour of SpecApi
MaxMsgs == 2            \* message notifications delivered in one behaviour
MaxAttemptsBound == 2   \* largest reconnect.maxAttempts drawn at construction

MaxId == IF MaxTransports > MaxProcTransports THEN MaxTransports ELSE MaxProcTransports
Transports == 1..MaxId
Handlers == {1, 2}      \* two distinct handler functions a caller may register
NoTransport == 0        \* this._eventSource === null
NoHandler == 0          \* this._handleMessage / this._handleError === undefined

VARIABLES
    eventSource,    \* _eventSource: NoTransport or the held transport
    status,         \* _status
    hasObserver,    \* options.onStatusUpdate was given
    hasPolicy,      \* options.reconnect was given (_reconnect is defined)
    maxAttempts,    \* _reconnect.maxAttempts
    attempts,       \* _reconnect.attempts
    timers,         \* number of pending setTimeout(() => this.connect())
    handleMessage,  \* _handleMessage
    handleError,    \* _handleError
    genState,       \* position of the generator _eventHandler
    queue,          \* pending next(event) requests of the generator
    inflight,       \* messages whose handler invocation has not completed
    tstate,         \* ready state of every transport
    nextId,         \* number of transports created so far
    delivered,      \* history: number of message notifications so far
    handled,        \* history: the arrival numbers of the dispatched messages, in order
    last,           \* history: the last dispatch of the generator
    notes,          \* history: the values passed to onStatusUpdate by the last step
    seen,           \* history: what the status getter returned inside those calls
    errCall,        \* history: the error event of the last step and the call of
                    \*          the error handler made for it
    firedSinceOpen, \* history: timer-made connect() calls since the last open
    carry,          \* history: timers pending when the last open was processed
    noRetry,        \* history: the last error scheduled nothing, no connect() since
    replaced,       \* history: some connect() was made while a transport was held
    op              \* history: the operation that made the last step

vars == << eventSource, status, hasObserver, hasPolicy, maxAttempts, attempts,
           timers, handleMessage, handleError, genState, queue, inflight,
           tstate, nextId, delivered, handled, last, notes, seen, errCall,
           firedSinceOpen, carry, noRetry, replaced, op >>

config == << hasObserver, hasPolicy, maxAttempts >>
reconnectVars == << attempts, timers >>
handlerVars == << handleMessage, handleError >>
genVars == << genState, queue, inflight, delivered, handled, last >>
connVars == << eventSource, status, tstate, nextId >>
histVars == << firedSinceOpen, carry, noRetry, replaced >>

\* ---- SSEClientStatus ----
CONNECTING == "CONNECTING"
OPEN == "OPEN"
CLOSED == "CLOSED"
SSEClientStatus == {CONNECTING, OPEN, CLOSED}

\* the value of `last` before the first dispatch
NoDispatch ==
    [msg |-> 0, src |-> NoTransport, at |-> NoHandler, waited |-> FALSE, h |-> NoHandler]

\* the value of `errCall` after a step that processed no error event
NoCall ==
    [h |-> NoHandler, ev |-> NoTransport, status |-> CLOSED, held |-> NoTransport]

\* ---- constructor ----
Init ==
    /\ eventSource = NoTransport
    /\ status = CLOSED
    /\ hasObserver \in BOOLEAN
    /\ hasPolicy \in BOOLEAN
    /\ maxAttempts \in 1..MaxAttemptsBound
    /\ hasPolicy = FALSE => maxAttempts = 1
    /\ attempts = 0
    /\ timers = 0
    /\ handleMessage = NoHandler
    /\ handleError = NoHandler
    /\ genState = "loop"        \* this._eventHandler.next() is running to the first yield
    /\ queue = << >>
    /\ inflight = {}
    /\ tstate = [t \in Transports |-> "none"]
    /\ nextId = 0
    /\ delivered = 0
    /\ handled = << >>
    /\ last = NoDispatch
    /\ notes = << >>
    /\ seen = << >>
    /\ errCall = NoCall
    /\ firedSinceOpen = 0
    /\ carry = 0
    /\ noRetry = FALSE
    /\ replaced = FALSE
    /\ op = "new"

\* ---- _updateStatus ----
Notify(log, s) == IF hasObserver THEN Append(log, s) ELSE log
\* variant of Seen: the observer is called before this._status is assigned
SeenStale(old, log) == [i \in 1..Len(log) |-> old]
\* this._status is assigned before the observer is called: inside each call the
\* getter returns the value the call was given
Seen(old, log) == log

\* ---- connect ----
\* connect(), called by a caller or by a reconnection timer: it creates a
\* transport and holds it whether or not one was held, and installs the three
\* callbacks on it (OnOpen, OnMessage, OnError below)
DoConnect(limit) ==
    /\ nextId < limit
    /\ LET fresh == nextId + 1 IN
        /\ nextId' = fresh
        /\ tstate' = [tstate EXCEPT ![fresh] = "connecting"]
        /\ eventSource' = fresh
    /\ status' = CONNECTING
    /\ notes' = Notify(<< >>, CONNECTING)
    /\ seen' = Seen(status, notes')
    /\ errCall' = NoCall
    /\ replaced' = (replaced \/ eventSource # NoTransport)

\* variant of Connect: a client that has had a transport cannot connect again
ConnectOnce(limit) ==
    /\ nextId = 0
    /\ DoConnect(limit)
    /\ noRetry' = FALSE
    /\ op' = "connect"
    /\ UNCHANGED << config, reconnectVars, handlerVars, genVars, firedSinceOpen, carry >>

Connect(limit) ==
    /\ DoConnect(limit)
    /\ noRetry' = FALSE
    /\ op' = "connect"
    /\ UNCHANGED << config, reconnectVars, handlerVars, genVars, firedSinceOpen, carry >>

\* the callback of setTimeout in _handleReconnect
TimerFire(limit) ==
    /\ timers > 0
    /\ timers' = timers - 1
    /\ DoConnect(limit)
    /\ firedSinceOpen' = firedSinceOpen + 1
    /\ noRetry' = FALSE
    /\ op' = "timer"
    /\ UNCHANGED << config, attempts, handlerVars, genVars, carry >>

\* ---- close ----
ClosedTstate(ts, held) ==
    IF held # NoTransport THEN [ts EXCEPT ![held] = "closed"] ELSE ts
\* variant of ClosedStatus: close() forgets the status update
ClosedStatusKept(st, held) == st
ClosedStatus(st, held) == IF held # NoTransport THEN CLOSED ELSE st
ClosedNotes(held) ==
    IF held # NoTransport THEN Notify(<< >>, CLOSED) ELSE << >>

\* variant of Close: close() also drops the pending messages and ends the
\* invocation in flight
CloseCancelling ==
    /\ tstate' = ClosedTstate(tstate, eventSource)
    /\ status' = ClosedStatus(status, eventSource)
    /\ notes' = ClosedNotes(eventSource)
    /\ seen' = Seen(status, notes')
    /\ errCall' = NoCall
    /\ eventSource' = NoTransport
    /\ queue' = << >>
    /\ inflight' = {}
    /\ genState' = IF genState = "await" THEN "loop" ELSE genState
    /\ op' = "close"
    /\ UNCHANGED << nextId, config, reconnectVars, handlerVars, delivered, handled,
                    last, histVars >>

\* variant of Close: close() also clears the pending reconnection timers
CloseCancellingTimers ==
    /\ tstate' = ClosedTstate(tstate, eventSource)
    /\ status' = ClosedStatus(status, eventSource)
    /\ notes' = ClosedNotes(eventSource)
    /\ seen' = Seen(status, notes')
    /\ errCall' = NoCall
    /\ eventSource' = NoTransport
    /\ timers' = 0
    /\ op' = "close"
    /\ UNCHANGED << nextId, config, attempts, handlerVars, genVars, histVars >>

\* variant of Close: close() also starts the reconnect counter again
CloseResetting ==
    /\ tstate' = ClosedTstate(tstate, eventSource)
    /\ status' = ClosedStatus(status, eventSource)
    /\ notes' = ClosedNotes(eventSource)
    /\ seen' = Seen(status, notes')
    /\ errCall' = NoCall
    /\ eventSource' = NoTransport
    /\ attempts' = 0
    /\ op' = "close"
    /\ UNCHANGED << nextId, config, timers, handlerVars, genVars, histVars >>

Close ==
    /\ tstate' = ClosedTstate(tstate, eventSource)
    /\ status' = ClosedStatus(status, eventSource)
    /\ notes' = ClosedNotes(eventSource)
    /\ seen' = Seen(status, notes')
    /\ errCall' = NoCall
    /\ eventSource' = NoTransport
    /\ op' = "close"
    /\ UNCHANGED << nextId, config, reconnectVars, handlerVars, genVars, histVars >>

\* ---- catch / on ----
Catch(h) ==
    /\ handleError' = h
    /\ op' = "catch"
    /\ notes' = << >>
    /\ seen' = << >>
    /\ errCall' = NoCall
    /\ UNCHANGED << handleMessage, config, reconnectVars, genVars, connVars, histVars >>

\* variant of On: a registered message handler is not replaced
OnFirstOnly(h) ==
    /\ handleMessage' = IF handleMessage = NoHandler THEN h ELSE handleMessage
    /\ op' = "on"
    /\ notes' = << >>
    /\ seen' = << >>
    /\ errCall' = NoCall
    /\ UNCHANGED << handleError, config, reconnectVars, genVars, connVars, histVars >>

On(h) ==
    /\ handleMessage' = h
    /\ op' = "on"
    /\ notes' = << >>
    /\ seen' = << >>
    /\ errCall' = NoCall
    /\ UNCHANGED << handleError, config, reconnectVars, genVars, connVars, histVars >>

\* ---- onopen ----
\* variant of OpenAttempts: the open callback leaves the counter alone
OpenAttemptsKept(a) == a
OpenAttempts(a) == IF hasPolicy THEN 0 ELSE a

OnOpen(t) ==
    /\ tstate[t] = "connecting"
    /\ tstate' = [tstate EXCEPT ![t] = "open"]
    /\ status' = OPEN
    /\ notes' = Notify(<< >>, OPEN)
    /\ seen' = Seen(status, notes')
    /\ errCall' = NoCall
    /\ attempts' = OpenAttempts(attempts)
    /\ firedSinceOpen' = 0
    /\ carry' = timers
    /\ noRetry' = FALSE
    /\ op' = "open"
    /\ UNCHANGED << eventSource, nextId, config, timers, handlerVars, genVars, replaced >>

\* ---- _handleReconnect ----
\* variant of CanReconnect: the counter is not compared with the maximum
CanReconnectAlways(a) == hasPolicy
\* variant of CanReconnect: the comparison is off by one
CanReconnectInclusive(a) == hasPolicy /\ a <= maxAttempts
CanReconnect(a) == hasPolicy /\ a < maxAttempts
\* variant of Incremented: the counter is not advanced
IncrementedNot(a) == a
Incremented(a) == a + 1

\* ---- onerror ----
\* variant of ErrorNotes: onerror reports CLOSED itself and then calls close()
ErrorNotesTwice(held) == ClosedNotes(held) \o ClosedNotes(held)
ErrorNotes(held) == ClosedNotes(held)

\* variant of Invokes: the call is made whether or not a handler is registered
InvokesAlways(h) == TRUE
\* handler?.(event): the call is made when a handler is registered
Invokes(h) == h # NoHandler

\* this._handleError?.(event), made first: the handler gets the event of
\* transport t and finds status and the handle as they were before the error;
\* with no handler registered only the event is recorded
ErrorCall(t) ==
    IF Invokes(handleError)
    THEN [h |-> handleError, ev |-> t, status |-> status, held |-> eventSource]
    ELSE [NoCall EXCEPT !.ev = t]

\* the error handler, if any, returns; then this.close(), then
\* this._handleReconnect()
OnError(t) ==
    /\ tstate[t] \in {"connecting", "open"}
    /\ errCall' = ErrorCall(t)
    /\ tstate' = [ClosedTstate(tstate, eventSource) EXCEPT
                    ![t] = IF t = eventSource THEN "closed" ELSE "errored"]
    /\ status' = ClosedStatus(status, eventSource)
    /\ notes' = ErrorNotes(eventSource)
    /\ seen' = Seen(status, notes')
    /\ eventSource' = NoTransport
    /\ IF CanReconnect(attempts)
       THEN /\ attempts' = Incremented(attempts)
            /\ timers' = timers + 1
            /\ noRetry' = FALSE
       ELSE /\ UNCHANGED << attempts, timers >>
            /\ noRetry' = TRUE
    /\ op' = "error"
    /\ UNCHANGED << nextId, config, handlerVars, genVars, firedSinceOpen, carry, replaced >>

\* the error handler throws: the exception leaves the onerror callback before
\* this.close() and this._handleReconnect() are reached, so the transport is
\* not closed by the client and stays held if it was
OnErrorFault(t) ==
    /\ tstate[t] \in {"connecting", "open"}
    /\ Invokes(handleError)
    /\ errCall' = ErrorCall(t)
    /\ tstate' = [tstate EXCEPT ![t] = "errored"]
    /\ notes' = << >>
    /\ seen' = << >>
    /\ op' = "errorfault"
    /\ UNCHANGED << eventSource, status, nextId, config, reconnectVars, handlerVars,
                    genVars, histVars >>

\* ---- the generator _createEventHandler ----
\* variant of GenSuspended: onmessage calls the handler without the generator
GenSuspendedAlways == TRUE
GenSuspended == genState = "yield"
\* variant of NextRequest: the newest request is served first
NextRequestNewest(q) == q[Len(q)]
NextRequest(q) == Head(q)
RestRequests(q) == Tail(q)

\* a message event: its arrival number, the transport that raised it and, for
\* the record, the handler registered when it arrived and whether the
\* generator was busy then
\* variant of Event: no message is recorded as having waited
EventNeverWaited(m, t) == [msg |-> m, src |-> t, at |-> handleMessage, waited |-> FALSE]
Event(m, t) == [msg |-> m, src |-> t, at |-> handleMessage, waited |-> ~GenSuspended]

\* variant of DispatchHandler: the handler registered when the message arrived
DispatchHandlerAtArrival(e) == e.at
\* this._handleMessage, read when the generator is resumed with the event
DispatchHandler(e) == handleMessage

\* the generator body from `const event = yield` on, resumed with event e
Dispatch(e, rest) ==
    /\ queue' = rest
    /\ handled' = Append(handled, e.msg)
    /\ last' = [msg |-> e.msg, src |-> e.src, at |-> e.at, waited |-> e.waited,
                h |-> DispatchHandler(e)]
    /\ IF Invokes(DispatchHandler(e))
       THEN /\ inflight' = inflight \cup {e.msg}
            /\ genState' = "await"
       ELSE /\ inflight' = inflight
            /\ genState' = "loop"

\* onmessage: this._eventHandler.next(event)
OnMessage(t) ==
    /\ tstate[t] = "open"
    /\ delivered < MaxMsgs
    /\ delivered' = delivered + 1
    /\ LET e == Event(delivered + 1, t) IN
        IF genState = "done"
        THEN UNCHANGED << genState, queue, inflight, handled, last >>
        ELSE IF GenSuspended
        THEN Dispatch(NextRequest(Append(queue, e)), RestRequests(Append(queue, e)))
        ELSE /\ queue' = Append(queue, e)
             /\ UNCHANGED << genState, inflight, handled, last >>
    /\ op' = "message"
    /\ notes' = << >>
    /\ seen' = << >>
    /\ errCall' = NoCall
    /\ UNCHANGED << config, reconnectVars, handlerVars, connVars, histVars >>

\* the generator reaches `yield`: it suspends, or resumes with the next request
GenYield ==
    /\ genState = "loop"
    /\ IF queue = << >>
       THEN /\ genState' = "yield"
            /\ UNCHANGED << queue, inflight, handled, last >>
       ELSE Dispatch(NextRequest(queue), RestRequests(queue))
    /\ op' = "yield"
    /\ notes' = << >>
    /\ seen' = << >>
    /\ errCall' = NoCall
    /\ UNCHANGED << delivered, config, reconnectVars, handlerVars, connVars, histVars >>

\* variant of Awaited: the generator is not resumed when the invocation completes
AwaitedNone == NoDispatch.msg
\* the invocation the generator is awaiting
Awaited == last.msg

\* the promise returned by the handler resolves
HandlerComplete ==
    /\ \E m \in inflight :
        /\ inflight' = inflight \ {m}
        /\ genState' = IF genState = "await" /\ m = Awaited THEN "loop" ELSE genState
    /\ op' = "complete"
    /\ notes' = << >>
    /\ seen' = << >>
    /\ errCall' = NoCall
    /\ UNCHANGED << queue, delivered, handled, last, config, reconnectVars,
                    handlerVars, connVars, histVars >>

\* the handler throws or its promise rejects: the generator completes
HandlerFault ==
    /\ genState = "await"
    /\ Awaited \in inflight
    /\ inflight' = inflight \ {Awaited}
    /\ genState' = "done"
    /\ queue' = << >>
    /\ op' = "fault"
    /\ notes' = << >>
    /\ seen' = << >>
    /\ errCall' = NoCall
    /\ UNCHANGED << delivered, handled, last, config, reconnectVars, handlerVars,
                    connVars, histVars >>

\* the connection controller alone: no message is delivered
NextConn ==
    \/ Connect(MaxTransports)
    \/ Close
    \/ \E h \in Handlers : Catch(h)
    \/ \E t \in Transports : OnOpen(t)
    \/ \E t \in Transports : OnError(t)
    \/ \E t \in Transports : OnErrorFault(t)
    \/ TimerFire(MaxTransports)

Spec == Init /\ [][NextConn]_vars

\* the sequential processor driven by the connection controller
InitProc == Init /\ hasObserver = FALSE /\ maxAttempts = 1

NextProc ==
    \/ Connect(MaxProcTransports)
    \/ Close
    \/ \E h \in Handlers : On(h)
    \/ \E t \in Transports : OnOpen(t)
    \/ \E t \in Transports : OnMessage(t)
    \/ \E t \in Transports : OnError(t)
    \/ TimerFire(MaxProcTransports)
    \/ GenYield
    \/ HandlerComplete
    \/ HandlerFault

SpecProc == InitProc /\ [][NextProc]_vars

\* the whole interface of a client built with an observer and no reconnect
\* policy: both registrations, the connection and the processor
InitApi == Init /\ hasObserver = TRUE /\ hasPolicy = FALSE

NextApi ==
    \/ Connect(MaxApiTransports)
    \/ Close
    \/ \E h \in Handlers : On(h)
    \/ \E h \in Handlers : Catch(h)
    \/ \E t \in Transports : OnOpen(t)
    \/ \E t \in Transports : OnMessage(t)
    \/ \E t \in Transports : OnError(t)
    \/ \E t \in Transports : OnErrorFault(t)
    \/ GenYield
    \/ HandlerComplete
    \/ HandlerFault

SpecApi == InitApi /\ [][NextApi]_vars

\* the processor under fair scheduling, with handlers that complete: the
\* microtask that takes the generator to its next yield is run, and every
\* invocation started does complete
InitLive == Init /\ hasObserver = FALSE /\ hasPolicy = FALSE

NextLive ==
    \/ Connect(MaxApiTransports)
    \/ Close
    \/ \E h \in Handlers : On(h)
    \/ \E t \in Transports : OnOpen(t)
    \/ \E t \in Transports : OnMessage(t)
    \/ \E t \in Transports : OnError(t)
    \/ GenYield
    \/ HandlerComplete

Fairness == WF_vars(GenYield) /\ WF_vars(HandlerComplete)

SpecLive == InitLive /\ [][NextLive]_vars /\ Fairness

\* ---- the first variant of the client (no status, no reconnection, no generator) ----
\* the transport is the environment: a connecting transport opens
FirstTransportOpens(t) ==
    /\ tstate[t] = "connecting"
    /\ tstate' = [tstate EXCEPT ![t] = "open"]
    /\ op' = "transport open"
    /\ notes' = << >>
    /\ seen' = << >>
    /\ errCall' = NoCall
    /\ UNCHANGED << eventSource, status, nextId, config, reconnectVars, handlerVars,
                    genVars, histVars >>

\* connect(): a transport is created only if none is held
FirstConnect(limit) ==
    /\ IF eventSource = NoTransport
       THEN /\ nextId < limit
            /\ nextId' = nextId + 1
            /\ tstate' = [tstate EXCEPT ![nextId + 1] = "connecting"]
            /\ eventSource' = nextId + 1
       ELSE UNCHANGED << nextId, tstate, eventSource >>
    /\ op' = "connect"
    /\ notes' = << >>
    /\ seen' = << >>
    /\ errCall' = NoCall
    /\ UNCHANGED << status, config, reconnectVars, handlerVars, genVars, histVars >>

FirstClose ==
    /\ tstate' = ClosedTstate(tstate, eventSource)
    /\ eventSource' = NoTransport
    /\ op' = "close"
    /\ notes' = << >>
    /\ seen' = << >>
    /\ errCall' = NoCall
    /\ UNCHANGED << status, nextId, config, reconnectVars, handlerVars, genVars, histVars >>

\* variant of Initialized: registration does not look at the transport
InitializedAlways == TRUE
\* the test `if (!this._eventSource) throw new Error("EventSource is not initialized")`
Initialized == eventSource # NoTransport

FirstCatch(h) ==
    /\ IF Initialized
       THEN handleError' = h /\ op' = "catch"
       ELSE handleError' = handleError /\ op' = "catch: EventSource is not initialized"
    /\ notes' = << >>
    /\ seen' = << >>
    /\ errCall' = NoCall
    /\ UNCHANGED << handleMessage, config, reconnectVars, genVars, connVars, histVars >>

FirstOn(h) ==
    /\ IF Initialized
       THEN handleMessage' = h /\ op' = "on"
       ELSE handleMessage' = handleMessage /\ op' = "on: EventSource is not initialized"
    /\ notes' = << >>
    /\ seen' = << >>
    /\ errCall' = NoCall
    /\ UNCHANGED << handleError, config, reconnectVars, genVars, connVars, histVars >>

\* onmessage: the registered handler, if any, is called at once
FirstOnMessage(t) ==
    /\ tstate[t] = "open"
    /\ delivered < MaxMsgs
    /\ delivered' = delivered + 1
    /\ handled' = Append(handled, delivered + 1)
    /\ last' = [msg |-> delivered + 1, src |-> t, at |-> handleMessage,
                waited |-> FALSE, h |-> handleMessage]
    /\ op' = "message"
    /\ notes' = << >>
    /\ seen' = << >>
    /\ errCall' = NoCall
    /\ UNCHANGED << genState, queue, inflight, config, reconnectVars, handlerVars,
                    connVars, histVars >>

\* onerror: the registered handler, if any, is called; the transport is not closed
FirstOnError(t) ==
    /\ tstate[t] \in {"connecting", "open"}
    /\ errCall' = ErrorCall(t)
    /\ tstate' = [tstate EXCEPT ![t] = "errored"]
    /\ op' = "error"
    /\ notes' = << >>
    /\ seen' = << >>
    /\ UNCHANGED << eventSource, status, nextId, config, reconnectVars, handlerVars,
                    genVars, histVars >>

InitFirst == Init /\ hasObserver = FALSE /\ hasPolicy = FALSE

NextFirst ==
    \/ FirstConnect(MaxProcTransports)
    \/ FirstClose
    \/ \E h \in Handlers : FirstCatch(h)
    \/ \E h \in Handlers : FirstOn(h)
    \/ \E t \in Transports : FirstTransportOpens(t)
    \/ \E t \in Transports : FirstOnMessage(t)
    \/ \E t \in Transports : FirstOnError(t)

SpecFirst == InitFirst /\ [][NextFirst]_vars

\* ---- connect() with a status observer that calls close() re-entrantly ----
\* connect() assigns the new transport and calls _updateStatus(CONNECTING);
\* the observer, inside that call, calls close(): the new transport is closed,
\* the handle is set to null and the observer is told CLOSED; back in
\* connect() the assignment this._eventSource.onopen = ... is made on null and
\* throws a TypeError, so no callback is installed and the fault leaves
\* connect()
DoConnectObserverCloses(limit) ==
    /\ hasObserver
    /\ nextId < limit
    /\ LET fresh == nextId + 1 IN
        /\ nextId' = fresh
        /\ tstate' = ClosedTstate([tstate EXCEPT ![fresh] = "connecting"], fresh)
        /\ status' = ClosedStatus(CONNECTING, fresh)
        /\ notes' = Notify(<< >>, CONNECTING) \o ClosedNotes(fresh)
    /\ seen' = Seen(status, notes')
    /\ eventSource' = NoTransport
    /\ errCall' = NoCall
    /\ replaced' = (replaced \/ eventSource # NoTransport)

\* connect() called by a caller, the observer closing inside it
ConnectObserverCloses(limit) ==
    /\ DoConnectObserverCloses(limit)
    /\ noRetry' = FALSE
    /\ op' = "connect: TypeError"
    /\ UNCHANGED << config, reconnectVars, handlerVars, genVars, firedSinceOpen, carry >>

\* connect() called by a reconnection timer, the observer closing inside it:
\* the fault leaves the timer callback
TimerFireObserverCloses(limit) ==
    /\ timers > 0
    /\ timers' = timers - 1
    /\ DoConnectObserverCloses(limit)
    /\ firedSinceOpen' = firedSinceOpen + 1
    /\ noRetry' = FALSE
    /\ op' = "timer: TypeError"
    /\ UNCHANGED << config, attempts, handlerVars, genVars, carry >>

\* the connection controller with a status observer that may call close()
\* when it is told CONNECTING
InitReentrant == Init /\ hasObserver = TRUE

NextReentrant ==
    \/ Connect(MaxTransports)
    \/ ConnectObserverCloses(MaxTransports)
    \/ Close
    \/ \E t \in Transports : OnOpen(t)
    \/ \E t \in Transports : OnError(t)
    \/ TimerFire(MaxTransports)
    \/ TimerFireObserverCloses(MaxTransports)

SpecReentrant == InitReentrant /\ [][NextReentrant]_vars

TypeOK ==
    /\ eventSource \in {NoTransport} \cup Transports
    /\ status \in SSEClientStatus
    /\ attempts \in Nat
    /\ timers \in Nat
    /\ genState \in {"loop", "yield", "await", "done"}
    /\ inflight \subseteq 1..MaxMsgs
    /\ errCall.h \in {NoHandler} \cup Handlers
    /\ seen \in Seq(SSEClientStatus)

\* ------------------------------------------------------------------------
\* Properties
\* ------------------------------------------------------------------------

\* C1: while the generator has not been ended by a handler fault, the k-th
\* dispatch takes the k-th delivered message, the requests still pending are
\* exactly the later messages in arrival order, every message that arrived
\* while a handler was registered is handed to a handler, and when the
\* generator is suspended every delivered message has been dispatched: no
\* message is dropped, duplicated or reordered.
C1_InOrderExactlyOnce ==
    genState # "done" =>
        /\ handled = [k \in 1..Len(handled) |-> k]
        /\ [i \in 1..Len(queue) |-> queue[i].msg]
                = [i \in 1..(delivered - Len(handled)) |-> Len(handled) + i]
        /\ last.at # NoHandler => last.h # NoHandler
        /\ \A i \in 1..Len(queue) : queue[i].at # NoHandler => handleMessage # NoHandler
        /\ genState = "yield" => Len(handled) = delivered

\* C1 witness: the second message arrived while the handler was running for
\* the first, waited, and is now being handled.
C1_Witness ==
    /\ handled = << 1, 2 >>
    /\ last.msg = 2
    /\ last.waited
    /\ last.at # NoHandler
    /\ inflight = {2}

\* C2: at most one handler invocation is in flight, and it is the one the
\* generator is awaiting.
C2_NoOverlap ==
    /\ Cardinality(inflight) <= 1
    /\ inflight # {} => genState = "await" /\ inflight = {Awaited}

\* C2 witness: a handler started for a message of a transport that has since
\* been closed is still running while a message of a newer transport waits.
C2_Witness ==
    /\ inflight = {last.msg}
    /\ tstate[last.src] = "closed"
    /\ queue # << >>
    /\ queue[1].src # last.src

\* C3: connect() called while a transport is held creates no transport and
\* leaves the held handle as it was.
C3_ConnectIdempotent ==
    [][(op' = "connect" /\ eventSource # NoTransport)
        => (eventSource' = eventSource /\ nextId' = nextId)]_vars

\* C4: with a reconnect policy, 0 <= attempts <= maxAttempts.
C4_AttemptsBounded ==
    hasPolicy => (0 <= attempts /\ attempts <= maxAttempts)

\* C4 witness: an error was processed at attempts = maxAttempts (it scheduled
\* nothing, so no timer is pending).
C4_Witness ==
    /\ hasPolicy
    /\ op = "error"
    /\ attempts = maxAttempts
    /\ timers = 0

\* C5: an error processed with attempts < maxAttempts leaves status CLOSED,
\* attempts one greater and one more timer pending; a timer that fires makes
\* status CONNECTING; attempts changes only by that +1 and by the reset on open.
C5_ErrorSchedulesOneReconnect ==
    [][/\ (op' = "error" /\ hasPolicy /\ attempts < maxAttempts)
            => (status' = CLOSED /\ attempts' = attempts + 1 /\ timers' = timers + 1)
       /\ (op' = "timer") => (status' = CONNECTING /\ timers' = timers - 1)
       /\ (attempts' # attempts)
            => \/ (op' = "error" /\ attempts' = attempts + 1)
               \/ (op' = "open" /\ attempts' = 0)]_vars

\* C5 witness: the timer of the first failed attempt has fired.
C5_Witness ==
    /\ hasPolicy
    /\ op = "timer"
    /\ status = CONNECTING
    /\ attempts = 1
    /\ timers = 0

C7_TimerConnectsBounded ==
    (hasPolicy /\ ~replaced) => firedSinceOpen <= maxAttempts

\* C7 amended: they number at most maxAttempts plus the timers that were
\* pending when that open notification was processed; the timers pending and
\* fired since then are those carried over plus the attempts counted.
C7_TimerConnectsBoundedByCarry ==
    /\ hasPolicy => /\ firedSinceOpen <= maxAttempts + carry
                    /\ firedSinceOpen + timers = attempts + carry
    /\ ~hasPolicy => (firedSinceOpen = 0 /\ timers = 0)

\* C7 witness: more timer-made connect() calls than maxAttempts since the last
\* open notification.
C7_Witness ==
    /\ hasPolicy
    /\ carry > 0
    /\ firedSinceOpen = maxAttempts + carry

\* C8: an open notification processed with a policy leaves attempts = 0 and
\* status OPEN, and maxAttempts as it was.
C8_OpenResetsAttempts ==
    [][(op' = "open" /\ hasPolicy)
        => (attempts' = 0 /\ status' = OPEN /\ maxAttempts' = maxAttempts
            /\ hasPolicy' = hasPolicy)]_vars

\* C8 witness: an open notification was processed when maxAttempts
\* reconnections had been scheduled and none had fired.
C8_Witness ==
    /\ hasPolicy
    /\ op = "open"
    /\ status = OPEN
    /\ attempts = 0
    /\ carry = maxAttempts
    /\ timers = maxAttempts

\* C9: every change of status is an edge of the state machine:
\* CLOSED -> CONNECTING by connect(), CONNECTING -> OPEN by an open
\* notification, any -> CLOSED by close() or an error.
C9_StatusFollowsStateMachine ==
    [][(status' # status)
        => \/ (status = CLOSED /\ status' = CONNECTING /\ op' \in {"connect", "timer"})
           \/ (status = CONNECTING /\ status' = OPEN /\ op' = "open")
           \/ (status' = CLOSED /\ op' \in {"close", "error"})]_vars

\* C10: with an observer, connect() notifies CONNECTING once, an open
\* notification notifies OPEN once, and a close() of a held transport, explicit
\* or made on an error, notifies CLOSED once.
C10_ObserverNotifiedOnce ==
    [][hasObserver =>
        /\ (op' \in {"connect", "timer"}) => notes' = << CONNECTING >>
        /\ (op' = "open") => notes' = << OPEN >>
        /\ (op' \in {"close", "error"} /\ eventSource # NoTransport)
                => notes' = << CLOSED >>]_vars

\* C10 witness: an error closed the held transport and the observer was told
\* CLOSED.
C10_Witness ==
    /\ hasObserver
    /\ op = "error"
    /\ notes = << CLOSED >>
    /\ status = CLOSED

\* C11: the observer is never called for a no-op transition: every value
\* passed to it differs from the status held just before the call; close()
\* with no transport held and connect() while status is CONNECTING or OPEN
\* call it not at all.
C11_NoNoopNotification ==
    [][/\ \A i \in 1..Len(notes') :
            notes'[i] # (IF i = 1 THEN status ELSE notes'[i - 1])
       /\ (op' = "close" /\ eventSource = NoTransport) => notes' = << >>
       /\ (op' = "connect" /\ status \in {CONNECTING, OPEN}) => notes' = << >>]_vars

\* C12: with an observer, the values passed to it by a step are the values
\* status took in that step, in order: a step that changes status reports the
\* new value, a report always carries the value status has after the step, and
\* inside each call the getter returns the value the call was given.
C12_ObserverSeesEveryStatus ==
    [][hasObserver =>
        /\ (status' # status) => notes' = << status' >>
        /\ (notes' # << >>) => notes' = << status' >>
        /\ seen' = notes']_vars

\* C12 witness: the observer was told CONNECTING by a connect() made by a
\* reconnection timer, after CLOSED, and read CONNECTING from the getter.
C12_Witness ==
    /\ hasObserver
    /\ op = "timer"
    /\ notes = << CONNECTING >>
    /\ seen = << CONNECTING >>
    /\ status = CONNECTING
    /\ ~replaced

\* C13: close() with a transport held closes that transport, which was not
\* closed before, and no other, leaves the handle none and status CLOSED;
\* close() with no transport held closes nothing, calls no observer and leaves
\* status CLOSED; after either no transport is held, so a second close() is the
\* no-op.
C13_CloseIdempotent ==
    [][(op' = "close") =>
        /\ (eventSource # NoTransport) =>
                /\ tstate[eventSource] # "closed"
                /\ tstate' = [tstate EXCEPT ![eventSource] = "closed"]
                /\ status' = CLOSED
        /\ (eventSource = NoTransport) =>
                /\ tstate' = tstate
                /\ notes' = << >>
                /\ status' = status
                /\ status' = CLOSED
        /\ eventSource' = NoTransport]_vars

\* C14: close() leaves attempts, maxAttempts and the registered handlers as
\* they were; on an error the close leaves them too, so that attempts after the
\* error is what the reconnection step makes of the value before the error.
C14_CloseKeepsReconnectState ==
    [][/\ (op' = "close")
            => /\ attempts' = attempts
               /\ maxAttempts' = maxAttempts
               /\ hasPolicy' = hasPolicy
               /\ handleMessage' = handleMessage
               /\ handleError' = handleError
       /\ (op' = "error")
            => /\ attempts' = IF hasPolicy /\ attempts < maxAttempts
                              THEN attempts + 1 ELSE attempts
               /\ maxAttempts' = maxAttempts
               /\ hasPolicy' = hasPolicy
               /\ handleMessage' = handleMessage
               /\ handleError' = handleError]_vars

\* C14 witness: close() closed the held transport when every allowed
\* reconnection had been scheduled and an error handler was registered.
C14_Witness ==
    /\ op = "close"
    /\ hasPolicy
    /\ attempts = maxAttempts
    /\ handleError # NoHandler
    /\ status = CLOSED
    /\ nextId > 0
    /\ tstate[nextId] = "closed"
    /\ ~replaced

\* C15: on an error notification of a transport the registered error handler,
\* if any, is called once, with that event, while status and the handle are as
\* they were before the error; then that transport is closed, the handle is
\* none and status is CLOSED; then the reconnection step runs on the attempts
\* counter as it was before the error.
C15_ErrorStepOrder ==
    [][(op' \in {"error", "errorfault"}) =>
        /\ errCall'.ev \in Transports
        /\ tstate[errCall'.ev] \in {"connecting", "open"}
        /\ (handleError # NoHandler)
                => errCall' = [h |-> handleError, ev |-> errCall'.ev,
                               status |-> status, held |-> eventSource]
        /\ (handleError = NoHandler) => errCall'.h = NoHandler
        /\ tstate'[errCall'.ev] = "closed"
        /\ eventSource' = NoTransport
        /\ status' = CLOSED
        /\ IF hasPolicy /\ attempts < maxAttempts
           THEN attempts' = attempts + 1 /\ timers' = timers + 1
           ELSE attempts' = attempts /\ timers' = timers]_vars

\* C16: every error notification is processed without a fault leaving the
\* client, and after it the transport that raised it is closed, no transport
\* is held and status is CLOSED, with or without an error handler and whatever
\* the handler does.
C16_ErrorAlwaysCloses ==
    [][(op' \in {"error", "errorfault"}) =>
        /\ op' # "errorfault"
        /\ tstate'[errCall'.ev] = "closed"
        /\ eventSource' = NoTransport
        /\ status' = CLOSED]_vars

\* C17: a failing handler invocation does not stop the processor: whatever the
\* handlers did, every message delivered so far has been dispatched or is
\* pending, in arrival order, and at most one invocation is in flight.
C17_HandlerFaultIsolated ==
    /\ handled \o [i \in 1..Len(queue) |-> queue[i].msg] = [k \in 1..delivered |-> k]
    /\ Cardinality(inflight) <= 1

\* C18: a message dispatched while no handler is registered starts no
\* invocation and leaves the generator running to its next yield, with status,
\* the handle, the transports and the reconnect state as they were; a message
\* dispatched while a handler is registered is handed to it; an invocation is
\* only ever started with a handler registered, for the message being
\* dispatched, which was never dispatched before.
C18_DiscardWithoutHandler ==
    [][/\ (Len(handled') > Len(handled) /\ handleMessage = NoHandler)
            => /\ inflight' = inflight
               /\ genState' = "loop"
               /\ status' = status
               /\ eventSource' = eventSource
               /\ tstate' = tstate
               /\ attempts' = attempts
               /\ timers' = timers
       /\ (Len(handled') > Len(handled) /\ handleMessage # NoHandler)
            => /\ inflight' = inflight \cup {handled'[Len(handled')]}
               /\ last'.h = handleMessage
       /\ \A m \in inflight' \ inflight :
            /\ handleMessage # NoHandler
            /\ handled' = Append(handled, m)
            /\ \A i \in 1..Len(handled) : handled[i] # m]_vars

\* C18 witness: the first message was dispatched with no handler registered
\* and discarded; a handler was registered afterwards and the generator is
\* suspended, ready for the next message, with no invocation in flight.
C18_Witness ==
    /\ handled = << 1 >>
    /\ last.msg = 1
    /\ last.h = NoHandler
    /\ handleMessage # NoHandler
    /\ genState = "yield"
    /\ inflight = {}
    /\ status = OPEN

\* C19: in every state on(h) and catch(h) can be called for every handler h
\* and leave h registered; they change nothing but the handler they register -
\* status, the handle, the transports, the reconnect state, the processor and
\* the other handler are as they were - and call no observer; every dispatch
\* invokes the message handler registered at that moment and every error
\* notification the error handler registered at that moment, never an earlier
\* one.
C19_RegistrationFrame ==
    /\ [](\A h \in Handlers :
            /\ ENABLED (NextApi /\ op' = "on" /\ handleMessage' = h)
            /\ ENABLED (NextApi /\ op' = "catch" /\ handleError' = h))
    /\ [][/\ (op' = "on")
                => /\ handleMessage' \in Handlers
                   /\ handleError' = handleError
                   /\ notes' = << >>
                   /\ UNCHANGED << status, eventSource, tstate, nextId, attempts,
                                   timers, genState, queue, inflight >>
          /\ (op' = "catch")
                => /\ handleError' \in Handlers
                   /\ handleMessage' = handleMessage
                   /\ notes' = << >>
                   /\ UNCHANGED << status, eventSource, tstate, nextId, attempts,
                                   timers, genState, queue, inflight >>
          /\ (Len(handled') > Len(handled))
                => /\ last'.h = handleMessage
                   /\ (inflight' # inflight) = (handleMessage # NoHandler)
          /\ (op' \in {"error", "errorfault"}) => errCall'.h = handleError]_vars

\* C19 witness: after close(), on() replaced the message handler that had
\* handled the last message, with an error handler registered.
C19_Witness ==
    /\ op = "on"
    /\ status = CLOSED
    /\ nextId > 0
    /\ tstate[nextId] = "closed"
    /\ last.h # NoHandler
    /\ handleMessage # last.h
    /\ handleError # NoHandler

\* C20: CLOSED is not terminal: in every reachable state with status CLOSED
\* connect() can be called (while the model has a transport left to create),
\* and called there it creates a transport, holds it and makes status
\* CONNECTING; the open notification of a held connecting transport can follow
\* and makes status OPEN.
C20_NoTerminalState ==
    /\ []((status = CLOSED /\ nextId < MaxTransports)
            => ENABLED (NextConn /\ op' = "connect" /\ status' = CONNECTING
                        /\ nextId' = nextId + 1 /\ eventSource' = nextId'))
    /\ []((eventSource # NoTransport /\ tstate[eventSource] = "connecting")
            => ENABLED (NextConn /\ op' = "open" /\ status' = OPEN
                        /\ eventSource' = eventSource
                        /\ tstate'[eventSource] = "open"))
    /\ [][/\ (op' = "connect" /\ status = CLOSED)
                => /\ status' = CONNECTING
                   /\ nextId' = nextId + 1
                   /\ eventSource' = nextId'
                   /\ tstate'[nextId'] = "connecting"
          /\ (op' = "open" /\ status = CONNECTING) => status' = OPEN]_vars

\* C20 witness: with a reconnect policy, every earlier transport has been
\* closed, no reconnection is pending and the client is OPEN again on the last
\* transport the model allows.
C20_Witness ==
    /\ op = "open"
    /\ status = OPEN
    /\ nextId = MaxTransports
    /\ eventSource = nextId
    /\ \A t \in 1..(nextId - 1) : tstate[t] = "closed"
    /\ hasPolicy
    /\ timers = 0
    /\ firedSinceOpen = 0
    /\ ~replaced

\* C21: in the first variant on(h) and catch(h) called with no transport held
\* throw "EventSource is not initialized" and leave both handlers as they
\* were; called with a transport held they can register every handler h, they
\* throw nothing and replace the handler they are about, leaving the other.
C21_RegistrationNeedsTransport ==
    /\ [](eventSource # NoTransport =>
            \A h \in Handlers :
                /\ ENABLED (NextFirst /\ op' = "on" /\ handleMessage' = h)
                /\ ENABLED (NextFirst /\ op' = "catch" /\ handleError' = h))
    /\ [][/\ (op' \in {"on", "on: EventSource is not initialized"})
                => /\ handleError' = handleError
                   /\ IF eventSource = NoTransport
                      THEN /\ op' = "on: EventSource is not initialized"
                           /\ handleMessage' = handleMessage
                      ELSE /\ op' = "on"
                           /\ handleMessage' \in Handlers
          /\ (op' \in {"catch", "catch: EventSource is not initialized"})
                => /\ handleMessage' = handleMessage
                   /\ IF eventSource = NoTransport
                      THEN /\ op' = "catch: EventSource is not initialized"
                           /\ handleError' = handleError
                      ELSE /\ op' = "catch"
                           /\ handleError' \in Handlers]_vars

\* C21 witness: after close(), on() threw and the message handler registered
\* while a transport was held is still registered.
C21_Witness ==
    /\ op = "on: EventSource is not initialized"
    /\ eventSource = NoTransport
    /\ nextId > 0
    /\ tstate[nextId] = "closed"
    /\ handleMessage # NoHandler
    /\ handleError # NoHandler

\* C22: a message is handled by the handler registered at the moment its
\* dispatch begins: the dispatch takes the handler registered then, whatever
\* handler was registered when the message arrived, and with one registered
\* starts its invocation for that message.
C22_HandlerAtDispatch ==
    [][(Len(handled') > Len(handled))
        => /\ last'.msg = handled'[Len(handled')]
           /\ last'.h = handleMessage
           /\ handleMessage' = handleMessage
           /\ (handleMessage # NoHandler) => inflight' = inflight \cup {last'.msg}]_vars

\* C22 witness: the second message arrived while one handler was registered
\* and its invocation was running, on() registered the other handler while the
\* message waited, and the message is being handled by that other handler.
C22_Witness ==
    /\ last.msg = 2
    /\ last.waited
    /\ last.at \in Handlers
    /\ last.h \in Handlers
    /\ last.h # last.at
    /\ inflight = {2}

C24_EveryMessageDispatched ==
    \A m \in 1..MaxMsgs :
        (delivered >= m) ~> (Len(handled) >= m /\ handled[m] = m /\ m \notin inflight)

\* C24 witness: the second message waited behind the invocation for the
\* first, was dispatched after it completed, and its own invocation completed.
C24_Witness ==
    /\ op = "complete"
    /\ handled = << 1, 2 >>
    /\ last.msg = 2
    /\ last.waited
    /\ last.h # NoHandler
    /\ last.at # NoHandler
    /\ inflight = {}

\* C25: while status is CLOSED no message notification is handed to the
\* processor: every message is submitted in a state whose status is not CLOSED
\* and in which a transport is held.
C25_NoSubmissionWhileClosed ==
    [][(op' = "message") => (status # CLOSED /\ eventSource # NoTransport)]_vars

\* C26: close(), explicit or made on an error, leaves the processor as it is -
\* the invocation in flight, the pending messages and the position of the
\* generator - and, while no handler has faulted, every message delivered has
\* been dispatched or is pending in arrival order, whatever has been closed.
C26_CloseKeepsProcessor ==
    /\ [](genState # "done" =>
            handled \o [i \in 1..Len(queue) |-> queue[i].msg]
                = [k \in 1..delivered |-> k])
    /\ [][(op' \in {"close", "error"})
            => UNCHANGED << inflight, queue, genState, handled, last, delivered >>]_vars

\* C26 witness: the invocation for the second message, which was delivered
\* before close() and waited, was started by the generator while status was
\* CLOSED, no transport was held and the transport that delivered it was closed.
C26_Witness ==
    /\ op = "yield"
    /\ status = CLOSED
    /\ eventSource = NoTransport
    /\ handled = << 1, 2 >>
    /\ inflight = {2}
    /\ last.waited
    /\ tstate[last.src] = "closed"

\* C27: close() leaves the pending reconnection timers pending; a pending
\* timer can fire (while the model has a transport left to create), and the
\* number pending goes down only by one timer firing, which calls connect():
\* a transport is created and held and status is CONNECTING.
C27_CloseKeepsTimers ==
    /\ []((timers > 0 /\ nextId < MaxTransports)
            => ENABLED (NextConn /\ op' = "timer" /\ status' = CONNECTING
                        /\ timers' = timers - 1))
    /\ [][/\ (op' = "close") => timers' = timers
          /\ (timers' < timers)
                => /\ op' = "timer"
                   /\ timers' = timers - 1
                   /\ status' = CONNECTING
                   /\ nextId' = nextId + 1
                   /\ eventSource' = nextId']_vars

\* C27 witness: close() has closed the transport of a connect() made after an
\* error scheduled a reconnection, and the timer is still pending with status
\* CLOSED.
C27_Witness ==
    /\ op = "close"
    /\ timers > 0
    /\ status = CLOSED
    /\ eventSource = NoTransport
    /\ nextId >= 2
    /\ tstate[nextId] = "closed"
    /\ notes = Notify(<< >>, CLOSED)
    /\ ~replaced

\* C28: in every reachable state the handle is none exactly when status is
\* CLOSED.
C28_HandleNoneIffClosed ==
    (eventSource = NoTransport) <=> (status = CLOSED)

\* C29: at most one transport the client created is live, created and not yet
\* closed by the client, and it is the held one.
C29_OneLiveTransport ==
    LET live == {t \in Transports : tstate[t] \in {"connecting", "open", "errored"}}
    IN  /\ Cardinality(live) <= 1
        /\ live \subseteq {eventSource}

\* C30 as stated: at most one reconnection timer is pending.  Stated of the
\* behaviours in which no connect() was made while a transport was held.
C30_OneTimerPending ==
    ~replaced => timers <= 1

\* C30 amended: a timer is scheduled only by an error processed with a policy
\* and attempts < maxAttempts, one at a time and whether or not another is
\* pending; the timers pending number at most attempts plus those that were
\* pending when the last open notification reset attempts, and none without a
\* policy.
C30_TimersBoundedByAttempts ==
    /\ [](timers <= attempts + carry)
    /\ [](~hasPolicy => timers = 0)
    /\ [][(timers' > timers)
            => /\ op' = "error"
               /\ hasPolicy
               /\ attempts < maxAttempts
               /\ timers' = timers + 1
               /\ attempts' = attempts + 1]_vars

\* C30 witness: two reconnection timers are pending and no connect() was made
\* while a transport was held.
C30_Witness ==
    /\ timers = 2
    /\ op = "error"
    /\ status = CLOSED
    /\ ~replaced

\* C31: a notification acts only for the transport that raised it: an error of
\* a transport that is not the held one leaves the handle, the held transport,
\* status and attempts as they were, and an open notification of a transport
\* that is not the held one leaves status and attempts as they were.
C31_NotificationActsForOwnTransport ==
    [][/\ (op' = "error" /\ errCall'.ev # eventSource)
            => /\ eventSource' = eventSource
               /\ status' = status
               /\ attempts' = attempts
               /\ eventSource # NoTransport => tstate'[eventSource] = tstate[eventSource]
       /\ \A t \in Transports :
            (op' = "open" /\ tstate[t] = "connecting" /\ tstate'[t] = "open"
                /\ t # eventSource)
                => /\ status' = status
                   /\ attempts' = attempts]_vars

\* C32: when the status observer calls close() while it is told CONNECTING
\* inside connect(), connect() completes without a fault, whether a caller or
\* a reconnection timer called it, and the client ends with no handle, status
\* CLOSED and the discarded transport closed.
C32_ConnectSafeAgainstObserverClose ==
    [][(notes' = << CONNECTING, CLOSED >>)
        => /\ op' \in {"connect", "timer"}
           /\ eventSource' = NoTransport
           /\ status' = CLOSED
           /\ tstate'[nextId'] = "closed"]_vars
====
